---- MODULE Spec2Model ----
(***************************************************************************)
(* PositionExecutor (hummingbot smart_components): one position's order    *)
(* lifecycle.  The executor is driven by the strategy's tick               *)
(* (control_position) and by the connector's order events, which reach it  *)
(* through the listeners registered in __init__.                           *)
(***************************************************************************)
EXTENDS Integers, Sequences, FiniteSets, TLC

VARIABLES
    status,           \* PositionExecutor._status
    close_timestamp,  \* PositionExecutor._close_timestamp
    order_id,         \* slot -> TrackedOrder.order_id
    order,            \* slot -> TrackedOrder.order (the id of the bound record)
    placed,           \* the place_order requests sent to the strategy, in order
    cancel_requests,  \* order id -> the cancel requests sent for it, counted up to MaxCancels
    listeners,        \* the connector's listeners: <<event kind, forwarder>>
    cfg,              \* the PositionConfig
    now,              \* strategy.current_timestamp
    venue,            \* order id -> the connector's record of that order
    misses,           \* the lookups of the order tracker that found nothing
    visited,          \* the statuses the executor has been in
    delivered,        \* the <<event kind, order id>> handled so far
    last              \* the step just taken

vars == <<status, close_timestamp, order_id, order, placed, cancel_requests,
          listeners, cfg, now, venue, misses, visited, delivered, last>>

----------------------------------------------------------------------------
(* Bounds of the model *)

MaxTime == 3

MaxOrders == 5

MaxCancels == 2

MaxMisses == 1

MaxPrice == 3

----------------------------------------------------------------------------
(* Data *)

None == 0

NOT_STARTED == "NOT_STARTED"

ORDER_PLACED == "ORDER_PLACED"

ACTIVE_POSITION == "ACTIVE_POSITION"

CLOSE_PLACED == "CLOSE_PLACED"

CLOSED_BY_TAKE_PROFIT == "CLOSED_BY_TAKE_PROFIT"

CLOSED_BY_STOP_LOSS == "CLOSED_BY_STOP_LOSS"

CLOSED_BY_TIME_LIMIT == "CLOSED_BY_TIME_LIMIT"

CANCELED_BY_TIME_LIMIT == "CANCELED_BY_TIME_LIMIT"

Slots == {"open", "take_profit", "stop_loss", "time_limit"}

ExitSlots == {"take_profit", "stop_loss", "time_limit"}

Sides == {"LONG", "SHORT"}

OrderIds == 1..MaxOrders

Prices == {94, 106}

FillPrices == {100}

TimeLimits == {1}

Timestamps == {1}

StopLossPcts == {5}

TakeProfitPcts == {5}

EntryPrices == {100}

Amounts == {2}

EventKinds == {"OrderCancelled", "BuyOrderCreated", "SellOrderCreated",
               "OrderFilled", "BuyOrderCompleted", "SellOrderCompleted"}

\* The handler each forwarder wraps.
ForwarderHandler(f) ==
    CASE f = "_cancel_order_forwarder"        -> "process_order_canceled_event"
      [] f = "_create_buy_order_forwarder"    -> "process_order_created_event"
      [] f = "_create_sell_order_forwarder"   -> "process_order_created_event"
      [] f = "_fill_order_forwarder"          -> "process_order_filled_event"
      [] f = "_complete_buy_order_forwarder"  -> "process_order_completed_event"
      [] f = "_complete_sell_order_forwarder" -> "process_order_completed_event"

\* The pairs register_events and unregister_events walk, in order.
event_pairs ==
    << <<"OrderCancelled",     "_cancel_order_forwarder">>,
       <<"BuyOrderCreated",    "_create_buy_order_forwarder">>,
       <<"SellOrderCreated",   "_complete_buy_order_forwarder">>,
       <<"OrderFilled",        "_complete_sell_order_forwarder">>,
       <<"BuyOrderCompleted",  "_complete_buy_order_forwarder">>,
       <<"SellOrderCompleted", "_complete_sell_order_forwarder">> >>

is_closed(st) ==
    st \in {CLOSED_BY_TIME_LIMIT, CLOSED_BY_STOP_LOSS,
            CLOSED_BY_TAKE_PROFIT, CANCELED_BY_TIME_LIMIT}

end_time == cfg.timestamp + cfg.time_limit

\* The exit orders are sent on the side opposite to the position's.
OppositeSide == IF cfg.side = "SHORT" THEN "LONG" ELSE "SHORT"

----------------------------------------------------------------------------
(* The executor's state as one value, so that methods compose.            *)
(* raised: an exception left the method and the rest of the call is       *)
(* skipped.  issued: the order ids this call has asked to cancel.          *)

St ==
    [status |-> status, close_timestamp |-> close_timestamp,
     order_id |-> order_id, order |-> order, placed |-> placed,
     cancel_requests |-> cancel_requests, raised |-> FALSE, issued |-> {}]

\* strategy.place_order: records the request and returns a fresh identifier.
place_order(s, slot, price100, order_type, position_action, position_side, amount) ==
    [s EXCEPT !.placed = Append(@, [slot |-> slot, price100 |-> price100,
                                    order_type |-> order_type,
                                    position_action |-> position_action,
                                    position_side |-> position_side,
                                    amount |-> amount]),
              !.order_id[slot] = Len(s.placed) + 1]

\* strategy.cancel: records the request (oid may be None).
cancel(s, oid) ==
    [s EXCEPT !.cancel_requests[oid] = IF @ < MaxCancels THEN @ + 1 ELSE @,
              !.issued = @ \cup {oid}]

Raise(s) == [s EXCEPT !.raised = TRUE]

\* connector._client_order_tracker.fetch_order: the record, or None when the
\* tracker does not hold the order (found = FALSE).
get_order(oid, found) == IF found THEN oid ELSE None

\* Whether self.open_order.order.<field> can be read.
OpenOrderBound(s) == s.order["open"] # None

\* open_order.order.average_executed_price is None until the order has a fill.
OpenOrderPriced(s) == OpenOrderBound(s) /\ venue[s.order["open"]].avg # None

entry_price(s, mid) ==
    IF s.status \in {NOT_STARTED, ORDER_PLACED, CANCELED_BY_TIME_LIMIT}
    THEN IF cfg.entry_price # None THEN cfg.entry_price ELSE mid
    ELSE venue[s.order["open"]].avg

\* stop_loss_price with the LONG formula for either side.
stop_loss_price100_unmirrored(s, mid) ==
    entry_price(s, mid) * (100 - cfg.stop_loss)

\* Prices times 100, the fractions being percentages.
stop_loss_price100(s, mid) ==
    IF cfg.side = "LONG" THEN entry_price(s, mid) * (100 - cfg.stop_loss)
                         ELSE entry_price(s, mid) * (100 + cfg.stop_loss)

take_profit_price100(s, mid) ==
    IF cfg.side = "LONG" THEN entry_price(s, mid) * (100 + cfg.take_profit)
                         ELSE entry_price(s, mid) * (100 - cfg.take_profit)

\* Whether self.entry_price can be computed in status s.status.
EntryPriceReadable(s) ==
    s.status \in {NOT_STARTED, ORDER_PLACED, CANCELED_BY_TIME_LIMIT}
        \/ OpenOrderPriced(s)

----------------------------------------------------------------------------
(* The control loop *)

control_open_order(s, mid) ==
    IF s.order_id["open"] = None
    THEN place_order(s, "open", entry_price(s, mid) * 100, cfg.order_type,
                     "OPEN", cfg.side, cfg.amount)
    ELSE s

control_cancel_order_by_time_limit(s) ==
    IF end_time >= now THEN cancel(s, s.order_id["open"]) ELSE s

\* control_take_profit without its order_id guard.
control_take_profit_unguarded(s, mid) ==
    IF ~OpenOrderBound(s) \/ ~EntryPriceReadable(s) THEN Raise(s)
    ELSE place_order(s, "take_profit", take_profit_price100(s, mid), "LIMIT",
                     "CLOSE", OppositeSide, venue[s.order["open"]].executed)

control_take_profit(s, mid) ==
    IF s.order_id["take_profit"] # None THEN s
    ELSE IF ~OpenOrderBound(s) \/ ~EntryPriceReadable(s) THEN Raise(s)
    ELSE place_order(s, "take_profit", take_profit_price100(s, mid), "LIMIT",
                     "CLOSE", OppositeSide, venue[s.order["open"]].executed)

\* current_price <= stop_loss_price for LONG, >= for SHORT.
trigger_stop_loss(s, mid) ==
    \/ cfg.side = "LONG"  /\ mid * 100 <= stop_loss_price100(s, mid)
    \/ cfg.side = "SHORT" /\ mid * 100 >= stop_loss_price100(s, mid)

control_stop_loss(s, mid) ==
    IF ~EntryPriceReadable(s) THEN Raise(s)
    ELSE IF trigger_stop_loss(s, mid) /\ s.order_id["stop_loss"] = None
    THEN IF ~OpenOrderBound(s) THEN Raise(s)
         ELSE [place_order(s, "stop_loss", mid * 100, "MARKET", "CLOSE",
                           OppositeSide, venue[s.order["open"]].executed)
                  EXCEPT !.status = CLOSE_PLACED]
    ELSE s

position_expired == end_time < now

control_time_limit(s, mid) ==
    IF position_expired /\ s.order_id["time_limit"] = None
    THEN IF ~OpenOrderBound(s) THEN Raise(s)
         ELSE [place_order(s, "time_limit", mid * 100, "MARKET", "CLOSE",
                           OppositeSide, venue[s.order["open"]].executed)
                  EXCEPT !.status = CLOSE_PLACED]
    ELSE s

\* control_exits without control_take_profit.
control_exits_without_take_profit(s, mid) ==
    LET s2 == control_stop_loss(s, mid)
    IN  IF s2.raised THEN s2 ELSE control_time_limit(s2, mid)

\* The three exit controls of one tick, each skipped once one has raised.
control_exits(s, mid) ==
    LET s1 == control_take_profit(s, mid)
        s2 == IF s1.raised THEN s1 ELSE control_stop_loss(s1, mid)
    IN  IF s2.raised THEN s2 ELSE control_time_limit(s2, mid)

\* control_position running the exit controls from ORDER_PLACED on.
control_position_exits_early(s, mid) ==
    IF s.status = NOT_STARTED THEN control_open_order(s, mid)
    ELSE IF s.status \in {ORDER_PLACED, ACTIVE_POSITION} THEN control_exits(s, mid)
    ELSE s

\* control_position running the exit controls in CLOSE_PLACED as well.
control_position_acts_when_closing(s, mid) ==
    IF s.status = NOT_STARTED THEN control_open_order(s, mid)
    ELSE IF s.status = ORDER_PLACED THEN control_cancel_order_by_time_limit(s)
    ELSE IF s.status \in {ACTIVE_POSITION, CLOSE_PLACED} THEN control_exits(s, mid)
    ELSE s

control_position(s, mid) ==
    IF s.status = NOT_STARTED THEN control_open_order(s, mid)
    ELSE IF s.status = ORDER_PLACED THEN control_cancel_order_by_time_limit(s)
    ELSE IF s.status = ACTIVE_POSITION THEN control_exits(s, mid)
    ELSE s

----------------------------------------------------------------------------
(* The event handlers; ev is [order_id, timestamp] *)

remove_take_profit(s) == cancel(s, s.order_id["take_profit"])

\* The order record's is_cancelled, is_failure and
\* is_pending_cancel_confirmation (a cancel was asked for and the venue has
\* not answered yet).
is_cancelled(i) == venue[i].state = "cancelled"

is_failure(i) == venue[i].state = "failed"

is_pending_cancel_confirmation(s, i) ==
    s.cancel_requests[i] > 0 /\ venue[i].state \in {"pending", "open", "partial"}

\* The log line of the else branch reads take_profit_order.order.current_state
\* and raises when the order is unbound.
clean_executor(s) ==
    IF s.status \in {CLOSED_BY_TIME_LIMIT, CLOSED_BY_STOP_LOSS}
    THEN IF /\ s.order["take_profit"] # None
            /\ \/ is_cancelled(s.order["take_profit"])
               \/ is_pending_cancel_confirmation(s, s.order["take_profit"])
               \/ is_failure(s.order["take_profit"])
         THEN s
         ELSE IF s.order["take_profit"] = None THEN Raise(s)
         ELSE remove_take_profit(s)
    ELSE s

\* process_order_completed_event without its two remove_take_profit calls.
process_order_completed_event_keeps_take_profit(s, ev) ==
    IF s.order_id["open"] = ev.order_id
    THEN [s EXCEPT !.status = ACTIVE_POSITION]
    ELSE IF s.order_id["stop_loss"] = ev.order_id
    THEN [s EXCEPT !.status = CLOSED_BY_STOP_LOSS,
                   !.close_timestamp = ev.timestamp]
    ELSE IF s.order_id["time_limit"] = ev.order_id
    THEN [s EXCEPT !.status = CLOSED_BY_TIME_LIMIT,
                   !.close_timestamp = ev.timestamp]
    ELSE IF s.order_id["take_profit"] = ev.order_id
    THEN [s EXCEPT !.status = CLOSED_BY_TAKE_PROFIT,
                   !.close_timestamp = ev.timestamp]
    ELSE s

process_order_completed_event(s, ev) ==
    IF s.order_id["open"] = ev.order_id
    THEN [s EXCEPT !.status = ACTIVE_POSITION]
    ELSE IF s.order_id["stop_loss"] = ev.order_id
    THEN [remove_take_profit(s) EXCEPT !.status = CLOSED_BY_STOP_LOSS,
                                       !.close_timestamp = ev.timestamp]
    ELSE IF s.order_id["time_limit"] = ev.order_id
    THEN [remove_take_profit(s) EXCEPT !.status = CLOSED_BY_TIME_LIMIT,
                                       !.close_timestamp = ev.timestamp]
    ELSE IF s.order_id["take_profit"] = ev.order_id
    THEN [s EXCEPT !.status = CLOSED_BY_TAKE_PROFIT,
                   !.close_timestamp = ev.timestamp]
    ELSE s

process_order_created_event(s, ev, found) ==
    IF s.order_id["open"] = ev.order_id
    THEN [s EXCEPT !.order["open"] = get_order(ev.order_id, found),
                   !.status = ORDER_PLACED]
    ELSE IF s.order_id["take_profit"] = ev.order_id
    THEN [s EXCEPT !.order["take_profit"] = get_order(ev.order_id, found)]
    ELSE IF s.order_id["stop_loss"] = ev.order_id
    THEN [s EXCEPT !.order["stop_loss"] = get_order(ev.order_id, found)]
    ELSE IF s.order_id["time_limit"] = ev.order_id
    THEN [s EXCEPT !.order["time_limit"] = get_order(ev.order_id, found)]
    ELSE s

\* process_order_canceled_event without the comparison of order ids.
process_order_canceled_event_any_order(s, ev) ==
    [s EXCEPT !.status = CANCELED_BY_TIME_LIMIT,
              !.close_timestamp = ev.timestamp]

\* process_order_canceled_event acting only while the entry order rests.
process_order_canceled_event_if_resting(s, ev) ==
    IF s.order_id["open"] = ev.order_id /\ s.status = ORDER_PLACED
    THEN [s EXCEPT !.status = CANCELED_BY_TIME_LIMIT,
                   !.close_timestamp = ev.timestamp]
    ELSE s

process_order_canceled_event(s, ev) ==
    IF s.order_id["open"] = ev.order_id
    THEN [s EXCEPT !.status = CANCELED_BY_TIME_LIMIT,
                   !.close_timestamp = ev.timestamp]
    ELSE s

process_order_filled_event(s, ev) ==
    IF s.order_id["open"] = ev.order_id /\ s.status # ACTIVE_POSITION
    THEN [s EXCEPT !.status = ACTIVE_POSITION]
    ELSE s

\* A forwarder calls the handler it was built with.
Forward(f, s, ev, found) ==
    LET h == ForwarderHandler(f)
    IN  CASE h = "process_order_canceled_event"  -> process_order_canceled_event(s, ev)
          [] h = "process_order_created_event"   -> process_order_created_event(s, ev, found)
          [] h = "process_order_filled_event"    -> process_order_filled_event(s, ev)
          [] h = "process_order_completed_event" -> process_order_completed_event(s, ev)

\* The connector calls, in registration order, every listener of the kind.
RECURSIVE trigger_event(_, _, _, _, _)
trigger_event(ls, kind, s, ev, found) ==
    IF ls = <<>> THEN s
    ELSE LET s1 == IF Head(ls)[1] = kind THEN Forward(Head(ls)[2], s, ev, found) ELSE s
         IN  trigger_event(Tail(ls), kind, s1, ev, found)

\* The handlers an event of the kind reaches, in order.
Handlers(kind) ==
    LET idx == {i \in 1..Len(listeners) : listeners[i][1] = kind}
    IN  {ForwarderHandler(listeners[i][2]) : i \in idx}

register_events(ls) == ls \o event_pairs

\* unregister_events leaving a forwarder subscribed to every kind but the
\* first it was registered for.
unregister_events_once_per_forwarder(ls) ==
    LET kept == {i \in 1..Len(ls) : \E j \in 1..(i - 1) : ls[j][2] = ls[i][2]}
        RECURSIVE pick(_)
        pick(i) == IF i > Len(ls) THEN <<>>
                   ELSE (IF i \in kept THEN <<ls[i]>> ELSE <<>>) \o pick(i + 1)
    IN  pick(1)

\* remove_listener drops the pair from the connector's listeners.
unregister_events(ls) ==
    SelectSeq(ls, LAMBDA p : \A i \in 1..Len(event_pairs) : event_pairs[i] # p)

----------------------------------------------------------------------------
(* Construction *)

\* The position configs the executor is built with.  stop_loss and
\* take_profit are percentages; end_time is timestamp + time_limit.
Configs ==
    [side : Sides, timestamp : Timestamps, time_limit : TimeLimits,
     stop_loss : StopLossPcts, take_profit : TakeProfitPcts,
     entry_price : EntryPrices, amount : Amounts, order_type : {"LIMIT"}]

NoOrder == [state |-> "none", executed |-> 0, avg |-> None]

\* What the variable last tells of a step: the operation, for an event its
\* kind, order and the handlers it reached, whether the call raised, and the
\* order ids it asked to cancel; for a read of the price properties, the
\* entry, stop-loss and take-profit prices it returned (times 100).
NoStep == [op |-> "init", kind |-> "", order_id |-> None, handlers |-> {},
           raised |-> FALSE, cancelled |-> {}, quote |-> <<>>]

Init ==
    /\ cfg \in Configs
    /\ status = NOT_STARTED
    /\ close_timestamp = None
    /\ order_id = [sl \in Slots |-> None]
    /\ order = [sl \in Slots |-> None]
    /\ placed = <<>>
    /\ cancel_requests = [i \in {None} \cup OrderIds |-> 0]
    /\ listeners = register_events(<<>>)
    /\ now = cfg.timestamp
    /\ venue = [i \in OrderIds |-> NoOrder]
    /\ misses = 0
    /\ visited = {NOT_STARTED}
    /\ delivered = {}
    /\ last = NoStep

\* The executor's fields and the strategy's request logs take s's values.
Apply(s) ==
    /\ status' = s.status
    /\ close_timestamp' = s.close_timestamp
    /\ order_id' = s.order_id
    /\ order' = s.order
    /\ placed' = s.placed
    /\ cancel_requests' = s.cancel_requests
    /\ visited' = visited \cup {s.status}

----------------------------------------------------------------------------
(* The strategy: ticks and the clock *)

\* One tick: control_position with the connector's mid price; the orders
\* it places become pending at the venue.
Tick(mid) ==
    LET s == control_position(St, mid)
    IN  /\ Len(s.placed) <= MaxOrders
        /\ Apply(s)
        /\ venue' = [i \in OrderIds |->
                        IF i > Len(placed) /\ i <= Len(s.placed)
                        THEN [NoOrder EXCEPT !.state = "pending"]
                        ELSE venue[i]]
        /\ last' = [NoStep EXCEPT !.op = "tick", !.raised = s.raised,
                                  !.cancelled = s.issued]
        /\ UNCHANGED <<listeners, cfg, now, misses, delivered>>

\* The Owner's cleanup call.
CleanExecutor ==
    LET s == clean_executor(St)
    IN  /\ Apply(s)
        /\ last' = [NoStep EXCEPT !.op = "clean", !.raised = s.raised,
                                  !.cancelled = s.issued]
        /\ UNCHANGED <<listeners, cfg, now, venue, misses, delivered>>

AdvanceTime ==
    /\ now < MaxTime
    /\ now' = now + 1
    /\ last' = [NoStep EXCEPT !.op = "time"]
    /\ UNCHANGED <<status, close_timestamp, order_id, order, placed,
                   cancel_requests, listeners, cfg, venue, misses, visited,
                   delivered>>

----------------------------------------------------------------------------
(* The connector: the order tracker and the order lifecycle events *)

IsBuy(i) == placed[i].position_side = "LONG"

\* The connector triggers an event of the kind for order i at the current
\* time; its listeners run before anything else happens.
Emit(kind, i, found) ==
    LET ev == [order_id |-> i, timestamp |-> now]
        s  == trigger_event(listeners, kind, St, ev, found)
    IN  /\ Apply(s)
        /\ delivered' = IF Handlers(kind) # {} THEN delivered \cup {<<kind, i>>}
                        ELSE delivered
        /\ last' = [NoStep EXCEPT !.op = "event", !.kind = kind,
                                  !.order_id = i, !.handlers = Handlers(kind),
                                  !.cancelled = s.issued]

\* The venue acknowledges order i; found tells whether the order tracker
\* holds the order by then.
VenueCreated(i, found) ==
    /\ venue[i].state = "pending"
    /\ found \/ misses < MaxMisses
    /\ misses' = IF found THEN misses ELSE misses + 1
    /\ venue' = [venue EXCEPT ![i].state = "open"]
    /\ Emit(IF IsBuy(i) THEN "BuyOrderCreated" ELSE "SellOrderCreated", i, found)
    /\ UNCHANGED <<listeners, cfg, now>>

VenueFailed(i) ==
    /\ venue[i].state = "pending"
    /\ venue' = [venue EXCEPT ![i].state = "failed"]
    /\ last' = [NoStep EXCEPT !.op = "failed", !.order_id = i]
    /\ UNCHANGED <<status, close_timestamp, order_id, order, placed,
                   cancel_requests, listeners, cfg, now, misses, visited,
                   delivered>>

\* A fill of all that is left of the order (final), or of one unit of a
\* resting limit order; a market order fills at once.
VenueFilled(i, final, px) ==
    /\ venue[i].state \in {"open", "partial"}
    /\ final \/ (venue[i].state = "open" /\ placed[i].amount > 1
                    /\ placed[i].order_type = "LIMIT")
    /\ venue' = [venue EXCEPT
                    ![i].state = IF final THEN "filled" ELSE "partial",
                    ![i].executed = IF final THEN placed[i].amount ELSE 1,
                    ![i].avg = IF @ = None THEN px ELSE @]
    /\ Emit("OrderFilled", i, TRUE)
    /\ UNCHANGED <<listeners, cfg, now, misses>>

VenueCompleted(i) ==
    /\ venue[i].state = "filled"
    /\ venue' = [venue EXCEPT ![i].state = "completed"]
    /\ Emit(IF IsBuy(i) THEN "BuyOrderCompleted" ELSE "SellOrderCompleted",
            i, TRUE)
    /\ UNCHANGED <<listeners, cfg, now, misses>>

VenueCancelled(i) ==
    /\ venue[i].state \in {"open", "partial"}
    /\ cancel_requests[i] > 0
    /\ venue' = [venue EXCEPT ![i].state = "cancelled"]
    /\ Emit("OrderCancelled", i, TRUE)
    /\ UNCHANGED <<listeners, cfg, now, misses>>

\* The notification of a fill reaches the connector after that of the
\* cancellation it raced with.
VenueLateFill(i, px) ==
    /\ venue[i].state = "cancelled"
    /\ venue[i].executed < placed[i].amount
    /\ venue' = [venue EXCEPT ![i].executed = @ + 1,
                              ![i].avg = IF @ = None THEN px ELSE @]
    /\ Emit("OrderFilled", i, TRUE)
    /\ UNCHANGED <<listeners, cfg, now, misses>>

\* The connector is shared: an event for an order of another executor.
ForeignId == MaxOrders + 1

VenueForeign(kind) ==
    LET ev == [order_id |-> ForeignId, timestamp |-> now]
        s  == trigger_event(listeners, kind, St, ev, TRUE)
    IN  /\ Apply(s)
        /\ last' = [NoStep EXCEPT !.op = "event", !.kind = kind,
                                  !.order_id = ForeignId,
                                  !.handlers = Handlers(kind),
                                  !.cancelled = s.issued]
        /\ UNCHANGED <<listeners, cfg, now, venue, misses, delivered>>

\* The Owner disposes of the executor.
Unregister ==
    /\ listeners' = unregister_events(listeners)
    /\ last' = [NoStep EXCEPT !.op = "unregister"]
    /\ UNCHANGED <<status, close_timestamp, order_id, order, placed,
                   cancel_requests, cfg, now, venue, misses, visited,
                   delivered>>

----------------------------------------------------------------------------

Next ==
    \/ \E mid \in Prices : Tick(mid)
    \/ CleanExecutor
    \/ AdvanceTime
    \/ \E i \in OrderIds, found \in BOOLEAN : VenueCreated(i, found)
    \/ \E i \in OrderIds : VenueFailed(i)
    \/ \E i \in OrderIds, final \in BOOLEAN, px \in FillPrices :
           VenueFilled(i, final, px)
    \/ \E i \in OrderIds : VenueCompleted(i)
    \/ \E i \in OrderIds : VenueCancelled(i)

Spec == Init /\ [][Next]_vars

\* The cancel of an order racing with its fills: the tracker holds every
\* order, and the notification of a fill may come after the cancellation's.
NextRace ==
    \/ \E mid \in Prices : Tick(mid)
    \/ AdvanceTime
    \/ \E i \in OrderIds : VenueCreated(i, TRUE)
    \/ \E i \in OrderIds, final \in BOOLEAN, px \in FillPrices :
           VenueFilled(i, final, px)
    \/ \E i \in OrderIds : VenueCompleted(i)
    \/ \E i \in OrderIds : VenueCancelled(i)
    \/ \E i \in OrderIds, px \in FillPrices : VenueLateFill(i, px)

SpecRace == Init /\ [][NextRace]_vars

\* The executor on a connector it shares with other executors, whose
\* orders' events reach its handlers too.
NextForeign ==
    \/ \E mid \in Prices : Tick(mid)
    \/ AdvanceTime
    \/ \E i \in OrderIds : VenueCreated(i, TRUE)
    \/ \E i \in OrderIds, px \in FillPrices : VenueFilled(i, TRUE, px)
    \/ \E i \in OrderIds : VenueCompleted(i)
    \/ \E i \in OrderIds : VenueCancelled(i)
    \/ \E kind \in EventKinds : VenueForeign(kind)

SpecForeign == Init /\ [][NextForeign]_vars

\* The executor disposed of at any moment, the venue going on.
NextDispose ==
    \/ \E mid \in Prices : Tick(mid)
    \/ AdvanceTime
    \/ \E i \in OrderIds : VenueCreated(i, TRUE)
    \/ \E i \in OrderIds, px \in FillPrices : VenueFilled(i, TRUE, px)
    \/ \E i \in OrderIds : VenueCompleted(i)
    \/ \E i \in OrderIds : VenueCancelled(i)
    \/ Unregister

SpecDispose == Init /\ [][NextDispose]_vars

\* The price properties over a range of position configs: entry prices
\* (None: the mid price is taken) and fractions of 1 to 99 per cent.
Fractions == 1..99

PriceConfigs ==
    [side : Sides, timestamp : Timestamps, time_limit : TimeLimits,
     stop_loss : Fractions, take_profit : Fractions,
     entry_price : {None} \cup (1..MaxPrice), amount : Amounts,
     order_type : {"LIMIT"}]

InitPrices ==
    /\ cfg \in PriceConfigs
    /\ status = NOT_STARTED
    /\ close_timestamp = None
    /\ order_id = [sl \in Slots |-> None]
    /\ order = [sl \in Slots |-> None]
    /\ placed = <<>>
    /\ cancel_requests = [i \in {None} \cup OrderIds |-> 0]
    /\ listeners = register_events(<<>>)
    /\ now = cfg.timestamp
    /\ venue = [i \in OrderIds |-> NoOrder]
    /\ misses = 0
    /\ visited = {NOT_STARTED}
    /\ delivered = {}
    /\ last = NoStep

\* The Owner reads entry_price, stop_loss_price and take_profit_price while
\* the connector's mid price is mid.
ReadPrices(mid) ==
    /\ last' = IF EntryPriceReadable(St)
               THEN [NoStep EXCEPT !.op = "prices",
                                   !.quote = <<entry_price(St, mid) * 100,
                                               stop_loss_price100(St, mid),
                                               take_profit_price100(St, mid)>>]
               ELSE [NoStep EXCEPT !.op = "prices", !.raised = TRUE]
    /\ UNCHANGED <<status, close_timestamp, order_id, order, placed,
                   cancel_requests, listeners, cfg, now, venue, misses,
                   visited, delivered>>

NextPrices == \E mid \in Prices : ReadPrices(mid)

SpecPrices == InitPrices /\ [][NextPrices]_vars

\* An entry order that never fills: the strategy keeps ticking, time goes
\* on, the venue acknowledges the order and confirms every cancellation.
NextLive ==
    \/ \E mid \in Prices : Tick(mid)
    \/ AdvanceTime
    \/ \E i \in OrderIds, found \in BOOLEAN : VenueCreated(i, found)
    \/ \E i \in OrderIds : VenueCancelled(i)

SpecLive ==
    /\ Init
    /\ [][NextLive]_vars
    /\ WF_vars(\E mid \in Prices : Tick(mid))
    /\ WF_vars(AdvanceTime)
    /\ WF_vars(\E i \in OrderIds, found \in BOOLEAN : VenueCreated(i, found))
    /\ WF_vars(\E i \in OrderIds : VenueCancelled(i))

\* A position left to the exits: the strategy keeps ticking, time goes on,
\* the tracker holds every order, and the venue acknowledges, fills and
\* completes every order it is sent.
NextExit ==
    \/ \E mid \in Prices : Tick(mid)
    \/ AdvanceTime
    \/ \E i \in OrderIds : VenueCreated(i, TRUE)
    \/ \E i \in OrderIds, px \in FillPrices : VenueFilled(i, TRUE, px)
    \/ \E i \in OrderIds : VenueCompleted(i)

SpecExit ==
    /\ Init
    /\ [][NextExit]_vars
    /\ WF_vars(\E mid \in Prices : Tick(mid))
    /\ WF_vars(AdvanceTime)
    /\ WF_vars(\E i \in OrderIds : VenueCreated(i, TRUE))
    /\ WF_vars(\E i \in OrderIds, px \in FillPrices : VenueFilled(i, TRUE, px))
    /\ WF_vars(\E i \in OrderIds : VenueCompleted(i))

----------------------------------------------------------------------------
(* Properties *)

PlacementsFor(sl) == {i \in 1..Len(placed) : placed[i].slot = sl}

CreatedKinds == {"BuyOrderCreated", "SellOrderCreated"}

CompletedKinds == {"BuyOrderCompleted", "SellOrderCompleted"}

\* The handler the documentation gives each event kind.
IntendedHandler(kind) ==
    CASE kind = "OrderCancelled"          -> "process_order_canceled_event"
      [] kind \in CreatedKinds            -> "process_order_created_event"
      [] kind = "OrderFilled"             -> "process_order_filled_event"
      [] kind \in CompletedKinds          -> "process_order_completed_event"

\* The slot whose completion a closed status stands for.
ClosingSlot(st) ==
    CASE st = CLOSED_BY_STOP_LOSS   -> "stop_loss"
      [] st = CLOSED_BY_TIME_LIMIT  -> "time_limit"
      [] st = CLOSED_BY_TAKE_PROFIT -> "take_profit"

\* C1: every slot gets at most one placement request, and an order_id that
\* is set is never overwritten, whatever the ticks and events.
C1_PlacedOncePerSlot ==
    /\ [](\A sl \in Slots : Cardinality(PlacementsFor(sl)) <= 1)
    /\ [][\A sl \in Slots : order_id[sl] # None => order_id'[sl] = order_id[sl]]_vars

\* C1 witness: a tick ran in ACTIVE_POSITION although the take-profit order
\* placed by an earlier tick was already acknowledged by the venue.
C1_Witness ==
    /\ last.op = "tick"
    /\ status = ACTIVE_POSITION
    /\ order_id["take_profit"] # None
    /\ venue[order_id["take_profit"]].state # "pending"

\* C2: a terminal status is never left.
C2_TerminalAbsorbing == [][is_closed(status) => status' = status]_vars

\* C3: ORDER_PLACED, ACTIVE_POSITION and CLOSE_PLACED are each entered at
\* most once: no step enters one of them that the executor was in before.
C3_EnteredAtMostOnce ==
    [][(status' # status /\ status' \in {ORDER_PLACED, ACTIVE_POSITION, CLOSE_PLACED})
          => status' \notin visited]_vars

\* C4: close_timestamp is null exactly in the non-terminal statuses and,
\* once set, keeps its value.
C4_CloseTimestampSetOnce ==
    /\ [](is_closed(status) <=> close_timestamp # None)
    /\ [][close_timestamp # None => close_timestamp' = close_timestamp]_vars

\* C5: each of the six event kinds reaches its own handler, and only it.
C5_EachKindItsHandler ==
    \A kind \in EventKinds : Handlers(kind) = {IntendedHandler(kind)}

\* C6: a CLOSED_BY_* status is entered only by an order completed event for
\* the matching exit slot.
C6_ClosedOnlyByCompleted ==
    [][(status' # status /\ status' \in {CLOSED_BY_STOP_LOSS, CLOSED_BY_TIME_LIMIT,
                                         CLOSED_BY_TAKE_PROFIT})
          => /\ last'.op = "event"
             /\ last'.kind \in CompletedKinds
             /\ last'.order_id = order_id[ClosingSlot(status')]]_vars

\* C7: in NOT_STARTED the order created event for the entry order leads to
\* ORDER_PLACED, and every other step, the submission included, leaves the
\* status NOT_STARTED.
C7_LeavesNotStartedByCreated ==
    [][status = NOT_STARTED =>
          IF /\ last'.op = "event"
             /\ last'.kind \in CreatedKinds
             /\ last'.order_id = order_id["open"]
          THEN status' = ORDER_PLACED
          ELSE status' = NOT_STARTED]_vars

\* C8: a tick in ORDER_PLACED asks to cancel the entry order exactly when
\* current_timestamp has reached end_time.
C8_CancelIffEndTimeReached ==
    [][(last'.op = "tick" /\ status = ORDER_PLACED)
          => ((order_id["open"] \in last'.cancelled) <=> (now >= end_time))]_vars

\* C9: an exit order is placed only after an order filled event for the
\* entry order was delivered; an entry order cancelled without a fill
\* leaves the three exit slots empty.
C9_NoExitBeforeEntryFill ==
    /\ (\E i \in 1..Len(placed) : placed[i].slot \in ExitSlots)
          => <<"OrderFilled", order_id["open"]>> \in delivered
    /\ (/\ order_id["open"] # None
        /\ venue[order_id["open"]].state = "cancelled"
        /\ venue[order_id["open"]].executed = 0)
          => \A sl \in ExitSlots : order_id[sl] = None

\* C9 witness: an exit order placed after the entry order's fill.
C9_Witness ==
    /\ order_id["take_profit"] # None
    /\ <<"OrderFilled", order_id["open"]>> \in delivered

\* C10: the stop-loss and the time-limit slot never both hold an order.
C10_StopLossXorTimeLimit ==
    ~(order_id["stop_loss"] # None /\ order_id["time_limit"] # None)

\* The executor's own fields and the requests it has sent.
ExecutorUnchanged ==
    UNCHANGED <<status, close_timestamp, order_id, order, placed, cancel_requests>>

\* The status becomes CLOSED_BY_STOP_LOSS or CLOSED_BY_TIME_LIMIT.
ClosesByAnotherExit ==
    status' # status /\ status' \in {CLOSED_BY_STOP_LOSS, CLOSED_BY_TIME_LIMIT}

\* The take-profit order was submitted and is neither filled, cancelled,
\* failed nor waiting for the answer to a cancel.
TakeProfitLive ==
    /\ order_id["take_profit"] # None
    /\ venue[order_id["take_profit"]].state \in {"pending", "open", "partial"}
    /\ cancel_requests[order_id["take_profit"]] = 0

TakeProfitTerminal ==
    /\ order_id["take_profit"] # None
    /\ venue[order_id["take_profit"]].state
           \in {"filled", "completed", "cancelled", "failed"}

\* C11: a step that closes the position by stop loss or by time limit while
\* the take-profit order is live asks to cancel that take-profit order.
C11_LiveTakeProfitCancelled ==
    [][(ClosesByAnotherExit /\ TakeProfitLive)
          => order_id["take_profit"] \in last'.cancelled]_vars

\* C11 witness: an event has just closed the position by stop loss and asked,
\* for the first time, to cancel the take-profit order resting at the venue.
C11_Witness ==
    /\ last.op = "event"
    /\ status = CLOSED_BY_STOP_LOSS
    /\ order_id["take_profit"] # None
    /\ order_id["take_profit"] \in last.cancelled
    /\ cancel_requests[order_id["take_profit"]] = 1
    /\ venue[order_id["take_profit"]].state \in {"pending", "open", "partial"}

\* C12: with the take-profit order already filled, cancelled or failed,
\* neither the step that closes the position by stop loss or time limit nor
\* clean_executor asks to cancel the take-profit order.
C12_TerminalTakeProfitNotCancelled ==
    [][(TakeProfitTerminal /\ (ClosesByAnotherExit \/ last'.op = "clean"))
          => order_id["take_profit"] \notin last'.cancelled]_vars

\* C13: the entry order and the take-profit order are each asked to be
\* cancelled at most once.
C13_CancelledAtMostOnce ==
    \A sl \in {"open", "take_profit"} :
        order_id[sl] # None => cancel_requests[order_id[sl]] <= 1

\* The handlers register_events subscribes to the kind.  An event is in
\* delivered only when it came while the executor was subscribed, and
\* unregister_events removes every subscription at once, so these are the
\* handlers that ran for it, whatever the listeners are by now.
SubscribedHandlers(kind) ==
    LET ls  == register_events(<<>>)
        idx == {i \in 1..Len(ls) : ls[i][1] = kind}
    IN  {ForwarderHandler(ls[i][2]) : i \in idx}

\* The order created event of the slot's order was delivered to
\* process_order_created_event.
CreatedHandled(sl) ==
    \E kind \in CreatedKinds :
        /\ <<kind, order_id[sl]>> \in delivered
        /\ "process_order_created_event" \in SubscribedHandlers(kind)

\* C17: once process_order_created_event has handled a slot's order, every
\* further event for that slot leaves the slot's order record bound, the
\* lookup being made again when the first one missed.
C17_LookupRetried ==
    [][\A sl \in Slots :
          (/\ order_id[sl] # None
           /\ CreatedHandled(sl)
           /\ last'.op = "event"
           /\ last'.order_id = order_id[sl])
             => order'[sl] = order_id[sl]]_vars

\* C18: in ACTIVE_POSITION, CLOSE_PLACED and the CLOSED_BY_* statuses the
\* entry slot's order record is bound, and in a CLOSED_BY_* status so is the
\* record of the exit slot that closed the position.
C18_QueriesDefined ==
    /\ status \in {ACTIVE_POSITION, CLOSE_PLACED, CLOSED_BY_STOP_LOSS,
                    CLOSED_BY_TAKE_PROFIT, CLOSED_BY_TIME_LIMIT}
          => order["open"] # None
    /\ status \in {CLOSED_BY_STOP_LOSS, CLOSED_BY_TAKE_PROFIT,
                    CLOSED_BY_TIME_LIMIT}
          => order[ClosingSlot(status)] # None

\* C19: a tick in CLOSE_PLACED or in a terminal status places nothing, asks
\* for no cancellation and leaves status, close_timestamp and the four
\* slots as they are.
C19_TickIdleWhenClosing ==
    [][(last'.op = "tick" /\ (status = CLOSE_PLACED \/ is_closed(status)))
          => /\ ExecutorUnchanged
             /\ last'.cancelled = {}
             /\ ~last'.raised]_vars

\* C19 witness: a tick has run in CLOSE_PLACED, the stop-loss order it found
\* placed being already rejected by the venue.
C19_Witness ==
    /\ last.op = "tick"
    /\ status = CLOSE_PLACED
    /\ order_id["stop_loss"] # None
    /\ venue[order_id["stop_loss"]].state = "failed"
    /\ now > end_time

\* C14: an event whose order_id is none of the four slots' leaves status,
\* close_timestamp, the four slots and the requests sent as they are.
C14_ForeignEventIgnored ==
    [][(last'.op = "event" /\ \A sl \in Slots : order_id[sl] # last'.order_id)
          => ExecutorUnchanged /\ last'.cancelled = {}]_vars

\* C14 witness: the handlers have just run for another executor's order
\* while this executor held a position and a take-profit order.
C14_Witness ==
    /\ last.op = "event"
    /\ last.order_id = ForeignId
    /\ last.handlers # {}
    /\ status = ACTIVE_POSITION
    /\ order_id["take_profit"] # None

\* C15: of the entry order's cancelled and filled events, both delivered to
\* the executor, the later one decides: the fill after the cancellation
\* gives ACTIVE_POSITION, the cancellation after the fill gives
\* CANCELED_BY_TIME_LIMIT.
C15_LaterEventDecides ==
    [][(/\ last'.op = "event"
        /\ last'.handlers # {}
        /\ order_id["open"] # None
        /\ last'.order_id = order_id["open"])
          => /\ (/\ last'.kind = "OrderFilled"
                 /\ <<"OrderCancelled", order_id["open"]>> \in delivered)
                   => status' = ACTIVE_POSITION
             /\ (/\ last'.kind = "OrderCancelled"
                 /\ <<"OrderFilled", order_id["open"]>> \in delivered)
                   => status' = CANCELED_BY_TIME_LIMIT]_vars

\* C15 witness: the entry order's fill was notified after its cancellation.
C15_Witness ==
    /\ last.op = "event"
    /\ last.kind = "OrderFilled"
    /\ order_id["open"] # None
    /\ last.order_id = order_id["open"]
    /\ <<"OrderCancelled", order_id["open"]>> \in delivered
    /\ venue[order_id["open"]].state = "cancelled"
    /\ status = ACTIVE_POSITION

\* C16: an entry order that was created and does not fill is asked to be
\* cancelled once the time has reached end_time, and the executor ends in
\* CANCELED_BY_TIME_LIMIT.
C16_UnfilledEntryCancelled ==
    (status = ORDER_PLACED) ~> (status = CANCELED_BY_TIME_LIMIT)

\* unregister_events has run.
Disposed == listeners # register_events(<<>>)

\* C20: unregister_events leaves no handler subscribed to any event kind,
\* and no event delivered afterwards changes status, close_timestamp or
\* the slots.
C20_DisposedIgnoresEvents ==
    /\ [][last'.op = "unregister"
             => \A kind \in EventKinds : Handlers(kind)' = {}]_vars
    /\ [][(Disposed /\ last'.op = "event")
             => UNCHANGED <<status, close_timestamp, order_id, order>>]_vars

\* C20 witness: the entry order's fill came after the disposal and the
\* executor stayed in ORDER_PLACED.
C20_Witness ==
    /\ Disposed
    /\ last.op = "event"
    /\ last.kind = "OrderFilled"
    /\ last.order_id = order_id["open"]
    /\ status = ORDER_PLACED

\* C21: for a LONG position stop_loss_price < entry_price < take_profit_price
\* with stop = entry * (1 - stop_loss) and take = entry * (1 + take_profit);
\* for a SHORT position take_profit_price < entry_price < stop_loss_price
\* with stop = entry * (1 + stop_loss) and take = entry * (1 - take_profit).
C21_PricesMirrored ==
    (last.op = "prices" /\ ~last.raised) =>
        LET entry == last.quote[1]
            stop  == last.quote[2]
            take  == last.quote[3]
        IN  /\ entry > 0
            /\ cfg.side = "LONG"
                  => /\ stop < entry /\ entry < take
                     /\ stop * 100 = entry * (100 - cfg.stop_loss)
                     /\ take * 100 = entry * (100 + cfg.take_profit)
            /\ cfg.side = "SHORT"
                  => /\ take < entry /\ entry < stop
                     /\ stop * 100 = entry * (100 + cfg.stop_loss)
                     /\ take * 100 = entry * (100 - cfg.take_profit)

\* C21 witness: the prices of a SHORT position were read, with the entry
\* price taken from the mid price and unequal fractions.
C21_Witness ==
    /\ last.op = "prices"
    /\ ~last.raised
    /\ cfg.side = "SHORT"
    /\ cfg.entry_price = None
    /\ cfg.stop_loss = 99
    /\ cfg.take_profit = 1
    /\ last.quote[2] > last.quote[1]

\* The placement requests the step has added.
NewPlacements == {i \in 1..Len(placed') : i > Len(placed)}

\* The step has submitted a market order for the stop-loss slot.
StopLossSubmitted ==
    \E i \in NewPlacements :
        placed'[i].slot = "stop_loss" /\ placed'[i].order_type = "MARKET"

\* The entry order has a fill, whose price is the position's entry price.
EntryFilled ==
    order_id["open"] # None /\ venue[order_id["open"]].avg # None

\* The mid price is at or beyond the stop-loss price, against the position.
Crossed(mid) ==
    LET entry == venue[order_id["open"]].avg
    IN  \/ cfg.side = "LONG"  /\ mid * 100 <= entry * (100 - cfg.stop_loss)
        \/ cfg.side = "SHORT" /\ mid * 100 >= entry * (100 + cfg.stop_loss)

\* C22: a tick in ACTIVE_POSITION submits a stop-loss market order exactly
\* when the mid price has crossed the stop-loss price and the stop-loss
\* slot has no order_id, and that step sets CLOSE_PLACED; when the price has
\* not crossed, no stop-loss order is submitted.
C22_StopLossOnCrossing ==
    [][\A mid \in Prices :
          (/\ status = ACTIVE_POSITION
           /\ EntryFilled
           /\ Tick(mid))
             => /\ StopLossSubmitted
                    <=> (Crossed(mid) /\ order_id["stop_loss"] = None)
                /\ StopLossSubmitted
                    => /\ status' = CLOSE_PLACED
                       /\ order_id'["stop_loss"] \in NewPlacements
                       /\ placed'[order_id'["stop_loss"]].price100 = mid * 100]_vars

\* The step has submitted the take-profit order: a limit order at
\* take_profit_price, on the opposite side, with the close action.
TakeProfitSubmitted ==
    \E i \in NewPlacements :
        /\ placed'[i].slot = "take_profit"
        /\ placed'[i].order_type = "LIMIT"
        /\ placed'[i].position_action = "CLOSE"
        /\ placed'[i].position_side = OppositeSide
        /\ order["open"] # None
        /\ placed'[i].price100 =
              venue[order["open"]].avg
                * (IF cfg.side = "LONG" THEN 100 + cfg.take_profit
                                        ELSE 100 - cfg.take_profit)

\* The step has submitted a stop-loss or a time-limit order.
OtherExitSubmitted ==
    \E i \in NewPlacements : placed'[i].slot \in {"stop_loss", "time_limit"}

\* C23: a tick in ACTIVE_POSITION with no take-profit order_id submits the
\* take-profit order, and the status stays ACTIVE_POSITION unless the tick
\* submits a stop-loss or time-limit order too.
C23_TakeProfitSubmitted ==
    [][(last'.op = "tick" /\ status = ACTIVE_POSITION
                         /\ order_id["take_profit"] = None)
          => /\ TakeProfitSubmitted
             /\ ~OtherExitSubmitted => status' = ACTIVE_POSITION]_vars

\* C24: from ACTIVE_POSITION on, an exit order is submitted and the executor
\* reaches CLOSED_BY_TAKE_PROFIT, CLOSED_BY_STOP_LOSS or CLOSED_BY_TIME_LIMIT.
C24_ActivePositionCloses ==
    (status = ACTIVE_POSITION)
        ~> (/\ \E sl \in ExitSlots : order_id[sl] # None
            /\ status \in {CLOSED_BY_TAKE_PROFIT, CLOSED_BY_STOP_LOSS,
                            CLOSED_BY_TIME_LIMIT})

\* C25: no cancellation request names a null order_id and every one names
\* an order placed before; the entry order is cancelled only with its
\* order_id set, and the take-profit slot has an order_id whenever the
\* stop-loss or the time-limit slot has one.
C25_CancelNamesPlacedOrder ==
    /\ cancel_requests[None] = 0
    /\ None \notin last.cancelled
    /\ \A i \in OrderIds : cancel_requests[i] > 0 => i <= Len(placed)
    /\ \A i \in OrderIds :
          (cancel_requests[i] > 0 /\ placed[i].slot = "open")
             => order_id["open"] = i
    /\ (order_id["stop_loss"] # None \/ order_id["time_limit"] # None)
          => order_id["take_profit"] # None

\* C25 witness: the entry order and, after the close by stop loss or time
\* limit, the take-profit order were both asked to be cancelled.
C25_Witness ==
    /\ status \in {CLOSED_BY_STOP_LOSS, CLOSED_BY_TIME_LIMIT}
    /\ order_id["open"] # None
    /\ cancel_requests[order_id["open"]] > 0
    /\ order_id["take_profit"] # None
    /\ cancel_requests[order_id["take_profit"]] > 0

====
